---- MODULE Spec2Model ----
(***************************************************************************)
(* BookScraper: the extraction contract (BookScraper.fetch_data), the      *)
(* persistence contract (DatabaseManager.__init__ / save_books) and the    *)
(* entry point (main) of src/main.py, as one state machine.                *)
(*                                                                         *)
(* Text is modelled as a sequence of one-character strings, so that        *)
(* str.replace, str.strip and float() are computed character by character. *)
(***************************************************************************)
EXTENDS Integers, Sequences, FiniteSets, TLC

VARIABLES
    \* ---- the page and BookScraper.fetch_data ----
    page,        \* the .product_pod entries of the loaded page, document order
    fpc,         \* position in fetch_data: idle, wait, loop, done, raised
    idx,         \* index of the entry the for loop is at
    results,     \* the results list
    ferr,        \* the exception fetch_data raised: none, TimeoutError, ValueError
    \* ---- the database and DatabaseManager ----
    schema,      \* the tables of the connection target
    table,       \* the committed rows of the books table
    nConstruct,  \* how many times DatabaseManager was constructed on the target
    spc,         \* position in save_books: idle, add, commit, except, finally
    books,       \* the argument of the running save_books call
    i,           \* index of the record the for loop is at
    pending,     \* the session's pending (added, not flushed) objects
    txn,         \* the rows inserted in the session's open transaction
    sessOpen,    \* sessions opened and not yet closed
    fault,       \* the fault the try block hit: none, add, insert, commit
    kFault,      \* history: rows already inserted by the call when it faulted
    rbFault,     \* session.rollback() itself raised
    raising,     \* an exception is leaving the except handler
    outcome,     \* how the last save_books call ended: none, returned, raised
    printed,     \* the last message print() wrote in the call / the run
    before,      \* history: the committed rows at entry of the last save_books
    everFaulted, \* history: an earlier save_books call on the target faulted
    \* ---- main ----
    mpc,         \* position in main: none, constructed, fetching, saving, exited
    exitCode,    \* exit status of the last run (-1: no run ended yet)
    runBefore    \* history: the committed rows when the run started

fetchVars == <<page, fpc, idx, results, ferr>>
sessVars  == <<spc, books, i, pending, txn, sessOpen, fault, kFault, rbFault,
               raising, outcome, before, everFaulted>>
dbVars    == <<schema, table, nConstruct>>
mainVars  == <<mpc, exitCode, runBefore>>
vars      == <<fetchVars, sessVars, dbVars, mainVars, printed>>

(***************************************************************************)
(* Bounds of the model.                                                    *)
(***************************************************************************)
MaxEntries   == 2   \* entries on a page
MaxBatch     == 2   \* records in one save_books call
MaxRows      == 4   \* committed rows the model lets the table grow to
MaxConstruct == 2   \* constructions of DatabaseManager on one target

(***************************************************************************)
(* Text helpers.                                                           *)
(***************************************************************************)
IsPrefixAt(s, p, old) ==
    /\ p + Len(old) - 1 <= Len(s)
    /\ SubSeq(s, p, p + Len(old) - 1) = old

\* str.replace(old, new): every non-overlapping occurrence, left to right.
RECURSIVE ReplaceFrom(_, _, _, _)
ReplaceFrom(s, p, old, new) ==
    IF p > Len(s) THEN <<>>
    ELSE IF IsPrefixAt(s, p, old)
         THEN new \o ReplaceFrom(s, p + Len(old), old, new)
         ELSE <<s[p]>> \o ReplaceFrom(s, p + 1, old, new)

Replace(s, old, new) == ReplaceFrom(s, 1, old, new)

Whitespace == {" ", "\n", "\t"}

RECURSIVE LStrip(_)
LStrip(s) ==
    IF s # <<>> /\ Head(s) \in Whitespace THEN LStrip(Tail(s)) ELSE s

RECURSIVE RStrip(_)
RStrip(s) ==
    IF s # <<>> /\ s[Len(s)] \in Whitespace
    THEN RStrip(SubSeq(s, 1, Len(s) - 1)) ELSE s

\* str.strip()
Strip(s) == RStrip(LStrip(s))

Digits == {"0", "1", "2", "3", "4", "5", "6", "7", "8", "9"}

DigitVal(c) ==
    CASE c = "0" -> 0 [] c = "1" -> 1 [] c = "2" -> 2 [] c = "3" -> 3
      [] c = "4" -> 4 [] c = "5" -> 5 [] c = "6" -> 6 [] c = "7" -> 7
      [] c = "8" -> 8 [] c = "9" -> 9

AllDigits(s) == \A k \in 1..Len(s) : s[k] \in Digits

RECURSIVE DigitsVal(_)
DigitsVal(s) ==
    IF s = <<>> THEN 0
    ELSE 10 * DigitsVal(SubSeq(s, 1, Len(s) - 1)) + DigitVal(s[Len(s)])

RECURSIVE DropTrailingZeros(_)
DropTrailingZeros(s) ==
    IF s # <<>> /\ s[Len(s)] = "0"
    THEN DropTrailingZeros(SubSeq(s, 1, Len(s) - 1)) ELSE s

DotPositions(s) == {k \in 1..Len(s) : s[k] = "."}

\* The unsigned decimal numeral s as the number m / 10^e, e minimal.
Decimal(s) ==
    IF DotPositions(s) = {}
    THEN [ok |-> s # <<>> /\ AllDigits(s), m |-> DigitsVal(s), e |-> 0]
    ELSE LET d    == CHOOSE k \in DotPositions(s) : TRUE
             ip   == SubSeq(s, 1, d - 1)
             fp   == SubSeq(s, d + 1, Len(s))
             frac == DropTrailingZeros(fp)
         IN  [ok |-> /\ Cardinality(DotPositions(s)) = 1
                     /\ AllDigits(ip) /\ AllDigits(fp)
                     /\ Len(ip) + Len(fp) >= 1,
              m  |-> DigitsVal(ip \o frac),
              e  |-> Len(frac)]

\* float(text): surrounding whitespace is ignored, then an optional sign and a
\* decimal numeral; anything else is a ValueError (ok = FALSE).  The texts of
\* the model hold no letters, so exponents, "inf" and "nan" do not arise.
PyFloat(text) ==
    LET s    == Strip(text)
        neg  == s # <<>> /\ Head(s) = "-"
        body == IF s # <<>> /\ Head(s) \in {"+", "-"} THEN Tail(s) ELSE s
        d    == Decimal(body)
    IN  IF \A k \in 1..Len(body) : body[k] \in Digits \cup {"."}
        THEN IF d.ok
             THEN [ok |-> TRUE, m |-> IF neg THEN 0 - d.m ELSE d.m, e |-> d.e]
             ELSE [ok |-> FALSE, m |-> 0, e |-> 0]
        ELSE [ok |-> FALSE, m |-> 0, e |-> 0]

(***************************************************************************)
(* The characters U+00A3 (pound sign) and U+00C2 (A with circumflex) are   *)
(* written by their code points; each is one character of a text.          *)
(***************************************************************************)
Pound == "U+00A3"
ACirc == "U+00C2"

\* The literal of price_text.replace(..., ""): the pound sign's UTF-8 bytes
\* C2 A3 decoded as Latin-1, i.e. the two characters U+00C2 U+00A3.
MisdecodedPound == <<ACirc, Pound>>

\* The literal of rating_class.replace("star-rating ", "").
StarRatingPrefix == <<"s", "t", "a", "r", "-", "r", "a", "t", "i", "n", "g", " ">>

StarRating == <<"s", "t", "a", "r", "-", "r", "a", "t", "i", "n", "g">>
WordOne    == <<"O", "n", "e">>
WordThree  == <<"T", "h", "r", "e", "e">>
WordFive   == <<"F", "i", "v", "e">>
WordExtra  == <<"h", "o", "t">>
InStock    == <<"I", "n", " ", "s", "t", "o", "c", "k">>
Sp         == <<" ">>
Nl         == <<"\n">>

\* The entries a page of the model is made of.  Every entry holds the four
\* elements fetch_data selects (h3 a, .price_color, .instock.availability,
\* .star-rating), with these attribute values and texts.
Entries ==
    { [title |-> "A Light in the Attic",
       price_text |-> <<Pound, "5", "1", ".", "7", "7">>,
       avail_text |-> Nl \o Sp \o InStock \o Nl,
       rating_class |-> StarRating \o Sp \o WordThree],
      [title |-> "Tipping the Velvet",
       price_text |-> <<ACirc, Pound, "5", "3", ".", "7", "4">>,
       avail_text |-> Sp \o InStock \o Sp,
       rating_class |-> StarRating \o Sp \o WordOne],
      [title |-> "Soumission",
       price_text |-> <<ACirc, Pound, "5", "0", ".", "1", "0">>,
       avail_text |-> InStock,
       rating_class |-> StarRating \o Sp \o WordThree \o Sp \o WordExtra],
      [title |-> "Sharp Objects",
       price_text |-> <<ACirc, Pound, "5", "1", ".", "7", "7">>,
       avail_text |-> InStock \o Nl,
       rating_class |-> StarRating \o Sp \o WordThree],
      [title |-> "Sapiens",
       price_text |-> <<Pound, "5", "4", ".", "2", "3">>,
       avail_text |-> InStock,
       rating_class |-> StarRating \o Sp \o WordFive] }

RECURSIVE SeqsUpTo(_, _)
SeqsUpTo(S, n) ==
    IF n = 0 THEN {<<>>}
    ELSE LET shorter == SeqsUpTo(S, n - 1)
         IN  shorter \cup {Append(q, x) : q \in shorter, x \in S}

Pages == SeqsUpTo(Entries, MaxEntries)

\* The dataclass BookData.
BookData(title, price, availability, rating) ==
    [title |-> title, price |-> price, availability |-> availability,
     rating |-> rating]

(***************************************************************************)
(* BookScraper.fetch_data                                                  *)
(***************************************************************************)
\* price = float(price_text.replace("Â£", ""))
ExtractPrice(price_text) == PyFloat(Replace(price_text, MisdecodedPound, <<>>))

\* avail = (await avail_el.inner_text()).strip()
ExtractAvail(avail_text) == Strip(avail_text)

\* rating = rating_class.replace("star-rating ", "")
ExtractRating(rating_class) == Replace(rating_class, StarRatingPrefix, <<>>)

\* The call: the browser is launched and the page p is loaded.
FetchBegin(p) ==
    /\ fpc \in {"idle", "done", "raised"}
    /\ page' = p
    /\ fpc' = "wait"
    /\ idx' = 0
    /\ results' = <<>>
    /\ ferr' = "none"

\* page.wait_for_selector(".product_pod") times out when no element ever
\* matches; otherwise query_selector_all returns the entries in document order.
FetchWait ==
    /\ fpc = "wait"
    /\ IF Len(page) = 0
       THEN /\ fpc' = "raised"
            /\ ferr' = "TimeoutError"
            /\ idx' = idx
       ELSE /\ fpc' = "loop"
            /\ ferr' = ferr
            /\ idx' = 1
    /\ UNCHANGED <<page, results>>
    /\ UNCHANGED <<sessVars, dbVars, mainVars, printed>>

\* One iteration of "for book in books".
FetchEntry ==
    /\ fpc = "loop"
    /\ idx <= Len(page)
    /\ LET book  == page[idx]
           price == ExtractPrice(book.price_text)
       IN  IF price.ok
           THEN /\ results' = Append(results,
                       BookData(book.title, [m |-> price.m, e |-> price.e],
                                ExtractAvail(book.avail_text),
                                ExtractRating(book.rating_class)))
                /\ idx' = idx + 1
                /\ UNCHANGED <<fpc, ferr>>
           ELSE /\ fpc' = "raised"
                /\ ferr' = "ValueError"
                /\ UNCHANGED <<results, idx>>
    /\ UNCHANGED page
    /\ UNCHANGED <<sessVars, dbVars, mainVars, printed>>

\* The loop is over: browser.close() and return results.
FetchReturn ==
    /\ fpc = "loop"
    /\ idx > Len(page)
    /\ fpc' = "done"
    /\ UNCHANGED <<page, idx, results, ferr>>
    /\ UNCHANGED <<sessVars, dbVars, mainVars, printed>>

\* fetch_data called on its own (a scraper used outside main).
FetchCall(p) ==
    /\ mpc = "none"
    /\ FetchBegin(p)
    /\ UNCHANGED <<sessVars, dbVars, mainVars, printed>>

(***************************************************************************)
(* The database: BookModel, DatabaseManager                                *)
(***************************************************************************)
\* The table BookModel declares.
BooksTable ==
    [name |-> "books",
     columns |-> <<"id", "title", "price", "availability", "rating">>]

HasTable(name) == \E k \in 1..Len(schema) : schema[k].name = name

\* Faulty variant of BookModel: availability and rating change places.
MutBookModelSwap(b) ==
    [title |-> b.title, price |-> b.price, availability |-> b.rating,
     rating |-> b.availability]

\* BookModel(title=b.title, price=b.price, availability=b.availability,
\*           rating=b.rating): a pending object, its id not assigned yet.
BookModel(b) ==
    [title |-> b.title, price |-> b.price, availability |-> b.availability,
     rating |-> b.rating]

MaxOf(S) == IF S = {} THEN 0 ELSE CHOOSE x \in S : \A y \in S : y <= x

\* The rowid an INTEGER PRIMARY KEY column gets: one more than the largest
\* rowid the inserting connection sees.
NextId(rows) == MaxOf({rows[k].id : k \in 1..Len(rows)}) + 1

\* The INSERT of one pending object inside the open transaction.
InsertRow(obj, rows) ==
    [id |-> NextId(rows), title |-> obj.title, price |-> obj.price,
     availability |-> obj.availability, rating |-> obj.rating]

\* Faulty variant of CreateAll: the tables are dropped and created anew
\* (drop_all before create_all), which loses the rows.
MutCreateAllDropFirst ==
    /\ schema' = <<BooksTable>>
    /\ table' = <<>>

\* Base.metadata.create_all(engine): CREATE TABLE for the tables that do not
\* exist yet (checkfirst); existing tables and their rows are left alone.
CreateAll ==
    /\ schema' = IF HasTable("books") THEN schema ELSE Append(schema, BooksTable)
    /\ table' = table

\* DatabaseManager.__init__
Construct ==
    /\ mpc = "none"
    /\ spc = "idle"
    /\ nConstruct < MaxConstruct
    /\ CreateAll
    /\ nConstruct' = nConstruct + 1
    /\ UNCHANGED <<fetchVars, sessVars, mainVars, printed>>

\* Faulty variant of SaveBegin: one session is kept for all calls and is not
\* usable again after a call that faulted.
MutSaveBeginPoisoned(bs) ==
    /\ spc = "idle"
    /\ nConstruct >= 1
    /\ fault = "none"
    /\ Len(table) + Len(bs) <= MaxRows
    /\ books' = bs
    /\ i' = 1
    /\ pending' = <<>>
    /\ txn' = <<>>
    /\ sessOpen' = sessOpen + 1
    /\ fault' = "none"
    /\ kFault' = 0
    /\ rbFault' = FALSE
    /\ raising' = FALSE
    /\ outcome' = "none"
    /\ printed' = "none"
    /\ before' = table
    /\ everFaulted' = everFaulted
    /\ spc' = IF bs = <<>> THEN "commit" ELSE "add"

\* save_books is entered: session = self.Session(), a new session with
\* nothing pending and no transaction begun.
SaveBegin(bs) ==
    /\ spc = "idle"
    /\ nConstruct >= 1
    /\ Len(table) + Len(bs) <= MaxRows
    /\ books' = bs
    /\ i' = 1
    /\ pending' = <<>>
    /\ txn' = <<>>
    /\ sessOpen' = sessOpen + 1
    /\ fault' = "none"
    /\ kFault' = 0
    /\ rbFault' = FALSE
    /\ raising' = FALSE
    /\ outcome' = "none"
    /\ printed' = "none"
    /\ before' = table
    /\ everFaulted' = (everFaulted \/ fault # "none")
    /\ spc' = IF bs = <<>> THEN "commit" ELSE "add"

\* One iteration of "for b in books": session.add(BookModel(...)).
SaveAdd ==
    /\ spc = "add"
    /\ i <= Len(books)
    /\ pending' = Append(pending, BookModel(books[i]))
    /\ i' = i + 1
    /\ spc' = IF i + 1 > Len(books) THEN "commit" ELSE "add"
    /\ UNCHANGED <<books, txn, sessOpen, fault, kFault, rbFault, raising,
                   outcome, before, everFaulted, printed>>
    /\ UNCHANGED <<fetchVars, dbVars, mainVars>>

\* The iteration raises (building or adding the object fails).
SaveAddFault ==
    /\ spc = "add"
    /\ i <= Len(books)
    /\ fault' = "add"
    /\ kFault' = Len(txn)
    /\ spc' = "except"
    /\ UNCHANGED <<books, i, pending, txn, sessOpen, rbFault, raising,
                   outcome, before, everFaulted, printed>>
    /\ UNCHANGED <<fetchVars, dbVars, mainVars>>

\* Faulty variant of SaveFlush: every INSERT is committed on its own.
MutSaveFlushAutocommit ==
    /\ spc = "commit"
    /\ pending # <<>>
    /\ table' = Append(table, InsertRow(Head(pending), table))
    /\ txn' = txn
    /\ pending' = Tail(pending)
    /\ UNCHANGED <<spc, books, i, sessOpen, fault, kFault, rbFault, raising,
                   outcome, before, everFaulted, printed>>
    /\ UNCHANGED <<fetchVars, schema, nConstruct, mainVars>>

\* session.commit() flushes first: one INSERT per pending object, in the
\* order added, inside the session's transaction.
SaveFlush ==
    /\ spc = "commit"
    /\ pending # <<>>
    /\ txn' = Append(txn, InsertRow(Head(pending), table \o txn))
    /\ pending' = Tail(pending)
    /\ table' = table
    /\ UNCHANGED <<spc, books, i, sessOpen, fault, kFault, rbFault, raising,
                   outcome, before, everFaulted, printed>>
    /\ UNCHANGED <<fetchVars, schema, nConstruct, mainVars>>

\* An INSERT of the flush faults.
SaveFlushFault ==
    /\ spc = "commit"
    /\ pending # <<>>
    /\ fault' = "insert"
    /\ kFault' = Len(txn)
    /\ spc' = "except"
    /\ UNCHANGED <<books, i, pending, txn, sessOpen, rbFault, raising,
                   outcome, before, everFaulted, printed>>
    /\ UNCHANGED <<fetchVars, dbVars, mainVars>>

\* The COMMIT succeeds: the transaction's rows become visible, and
\* "Successfully saved N books." is printed.
SaveCommit ==
    /\ spc = "commit"
    /\ pending = <<>>
    /\ table' = table \o txn
    /\ txn' = <<>>
    /\ printed' = "saved"
    /\ spc' = "finally"
    /\ UNCHANGED <<books, i, pending, sessOpen, fault, kFault, rbFault,
                   raising, outcome, before, everFaulted>>
    /\ UNCHANGED <<fetchVars, schema, nConstruct, mainVars>>

\* The COMMIT faults: nothing is committed.
SaveCommitFault ==
    /\ spc = "commit"
    /\ pending = <<>>
    /\ fault' = "commit"
    /\ kFault' = Len(txn)
    /\ spc' = "except"
    /\ UNCHANGED <<books, i, pending, txn, sessOpen, rbFault, raising,
                   outcome, before, everFaulted, printed>>
    /\ UNCHANGED <<fetchVars, dbVars, mainVars>>

\* Faulty variant of SaveExcept: the handler re-raises after the rollback.
MutSaveExceptReraise ==
    /\ spc = "except"
    /\ printed' = "error"
    /\ txn' = <<>>
    /\ pending' = <<>>
    /\ raising' = TRUE
    /\ spc' = "finally"
    /\ UNCHANGED <<books, i, sessOpen, fault, kFault, rbFault, outcome,
                   before, everFaulted>>
    /\ UNCHANGED <<fetchVars, dbVars, mainVars>>

\* except Exception as e: print("Error saving to DB: ..."); session.rollback().
\* The handler ends without raising: the exception goes no further.
SaveExcept ==
    /\ spc = "except"
    /\ printed' = "error"
    /\ txn' = <<>>
    /\ pending' = <<>>
    /\ raising' = FALSE
    /\ spc' = "finally"
    /\ UNCHANGED <<books, i, sessOpen, fault, kFault, rbFault, outcome,
                   before, everFaulted>>
    /\ UNCHANGED <<fetchVars, dbVars, mainVars>>

\* session.rollback() itself raises: that exception leaves the handler.
SaveExceptRollbackFault ==
    /\ spc = "except"
    /\ printed' = "error"
    /\ rbFault' = TRUE
    /\ raising' = TRUE
    /\ spc' = "finally"
    /\ UNCHANGED <<books, i, pending, txn, sessOpen, fault, kFault, outcome,
                   before, everFaulted>>
    /\ UNCHANGED <<fetchVars, dbVars, mainVars>>

\* Faulty variant of SaveFinally: close() is called after the try statement
\* instead of in a finally clause, so an exception in flight skips it.
MutSaveFinallyLeak ==
    /\ spc = "finally"
    /\ sessOpen' = IF raising THEN sessOpen ELSE sessOpen - 1
    /\ pending' = <<>>
    /\ txn' = <<>>
    /\ outcome' = IF raising THEN "raised" ELSE "returned"
    /\ raising' = FALSE
    /\ spc' = "idle"
    /\ UNCHANGED <<books, i, fault, kFault, rbFault, before, everFaulted,
                   printed>>
    /\ UNCHANGED <<fetchVars, dbVars, mainVars>>

\* finally: session.close() expunges the session's objects and releases its
\* connection, which rolls back whatever transaction is still open.  Then
\* the call returns None, or the exception in flight reaches the caller.
SaveFinally ==
    /\ spc = "finally"
    /\ sessOpen' = sessOpen - 1
    /\ pending' = <<>>
    /\ txn' = <<>>
    /\ outcome' = IF raising THEN "raised" ELSE "returned"
    /\ raising' = FALSE
    /\ spc' = "idle"
    /\ UNCHANGED <<books, i, fault, kFault, rbFault, before, everFaulted,
                   printed>>
    /\ UNCHANGED <<fetchVars, dbVars, mainVars>>

\* The records a caller passes to save_books: the record of the integration
\* test and the record of the end-to-end scenario.
Records ==
    { BookData("Test Book", [m |-> 50, e |-> 0],
               <<"I", "n", " ", "S", "t", "o", "c", "k">>, WordOne),
      BookData("A Light in the Attic", [m |-> 5177, e |-> 2], InStock, WordThree) }

Batches == SeqsUpTo(Records, MaxBatch)

\* save_books called on a constructed manager (as the integration test does).
SaveCall(bs) ==
    /\ mpc = "none"
    /\ SaveBegin(bs)
    /\ UNCHANGED <<fetchVars, dbVars, mainVars>>

(***************************************************************************)
(* main                                                                    *)
(***************************************************************************)
\* A run starts: a new process, whose memory holds nothing of an earlier run
\* (only the database file persists).  Then
\* scraper = BookScraper(TARGET_URL); db_manager = DatabaseManager(DB_CONNECTION)
MainStart ==
    /\ mpc \in {"none", "exited"}
    /\ spc = "idle"
    /\ nConstruct < MaxConstruct
    /\ CreateAll
    /\ nConstruct' = nConstruct + 1
    /\ mpc' = "constructed"
    /\ exitCode' = -1
    /\ runBefore' = table
    /\ page' = <<>> /\ fpc' = "idle" /\ idx' = 0 /\ results' = <<>>
    /\ ferr' = "none"
    /\ books' = <<>> /\ i' = 0 /\ fault' = "none" /\ kFault' = 0
    /\ rbFault' = FALSE
    /\ outcome' = "none" /\ before' = <<>> /\ everFaulted' = FALSE
    /\ printed' = "none"
    /\ UNCHANGED <<spc, pending, txn, sessOpen, raising>>

\* data = await scraper.fetch_data(): the call, on the page the site serves.
MainFetch(p) ==
    /\ mpc = "constructed"
    /\ FetchBegin(p)
    /\ mpc' = "fetching"
    /\ UNCHANGED <<exitCode, runBefore, sessVars, dbVars, printed>>

\* fetch_data raised: nothing in main catches it, asyncio.run re-raises it and
\* the interpreter prints the traceback and exits with status 1.
MainFetchRaised ==
    /\ mpc = "fetching"
    /\ fpc = "raised"
    /\ mpc' = "exited"
    /\ exitCode' = 1
    /\ UNCHANGED <<runBefore, fetchVars, sessVars, dbVars, printed>>

\* if data: db_manager.save_books(data)  else: print("No data found.")
MainBranch ==
    /\ mpc = "fetching"
    /\ fpc = "done"
    /\ IF results # <<>>
       THEN /\ SaveBegin(results)
            /\ mpc' = "saving"
            /\ UNCHANGED exitCode
       ELSE /\ printed' = "No data found."
            /\ mpc' = "exited"
            /\ exitCode' = 0
            /\ UNCHANGED sessVars
    /\ UNCHANGED <<runBefore, fetchVars, dbVars>>

\* Faulty variant of MainSaveDone: the exit status follows the fault that
\* save_books handled.
MutMainSaveDoneExitOnFault ==
    /\ mpc = "saving"
    /\ spc = "idle"
    /\ mpc' = "exited"
    /\ exitCode' = IF outcome = "raised" \/ fault # "none" THEN 1 ELSE 0
    /\ UNCHANGED <<runBefore, fetchVars, sessVars, dbVars, printed>>

\* save_books ended: main returns (exit status 0), or the exception that left
\* save_books is uncaught (traceback, exit status 1).
MainSaveDone ==
    /\ mpc = "saving"
    /\ spc = "idle"
    /\ mpc' = "exited"
    /\ exitCode' = IF outcome = "raised" THEN 1 ELSE 0
    /\ UNCHANGED <<runBefore, fetchVars, sessVars, dbVars, printed>>

(***************************************************************************)
(* Specifications                                                          *)
(***************************************************************************)
Init ==
    /\ page = <<>> /\ fpc = "idle" /\ idx = 0 /\ results = <<>> /\ ferr = "none"
    /\ schema = <<>> /\ table = <<>> /\ nConstruct = 0
    /\ spc = "idle" /\ books = <<>> /\ i = 0 /\ pending = <<>> /\ txn = <<>>
    /\ sessOpen = 0 /\ fault = "none" /\ kFault = 0 /\ rbFault = FALSE /\ raising = FALSE
    /\ outcome = "none" /\ printed = "none" /\ before = <<>>
    /\ everFaulted = FALSE
    /\ mpc = "none" /\ exitCode = -1 /\ runBefore = <<>>

SaveSteps ==
    \/ SaveAdd
    \/ SaveAddFault
    \/ SaveFlush
    \/ SaveFlushFault
    \/ SaveCommit
    \/ SaveCommitFault
    \/ SaveExcept
    \/ SaveExceptRollbackFault
    \/ SaveFinally

FetchSteps ==
    \/ FetchWait
    \/ FetchEntry
    \/ FetchReturn

\* The store used on its own: managers are constructed on the target and
\* save_books is called with any batch.
Next ==
    \/ Construct
    \/ \E bs \in Batches : SaveCall(bs)
    \/ SaveSteps

Spec == Init /\ [][Next]_vars

\* The extractor used on its own, on any page.
NextExtract ==
    \/ \E p \in Pages : FetchCall(p)
    \/ FetchSteps

SpecExtract == Init /\ [][NextExtract]_vars

\* Runs of the entry point, one after another, on the same database file.
NextMain ==
    \/ MainStart
    \/ \E p \in Pages : MainFetch(p)
    \/ FetchSteps
    \/ MainFetchRaised
    \/ MainBranch
    \/ SaveSteps
    \/ MainSaveDone

SpecMain == Init /\ [][NextMain]_vars

(***************************************************************************)
(* Properties                                                              *)
(***************************************************************************)
\* The rows rows[from+1 .. from+Len(recs)] hold the records recs, one row per
\* record, field for field.
RowsHold(rows, from, recs) ==
    /\ Len(rows) = from + Len(recs)
    /\ \A k \in 1..Len(recs) :
          /\ rows[from + k].title = recs[k].title
          /\ rows[from + k].price = recs[k].price
          /\ rows[from + k].availability = recs[k].availability
          /\ rows[from + k].rating = recs[k].rating

IsPrefix(a, b) == Len(a) <= Len(b) /\ SubSeq(b, 1, Len(a)) = a

DistinctIds(rows) ==
    \A j, k \in 1..Len(rows) : j # k => rows[j].id # rows[k].id

\* A save_books call has ended.
SaveEnded == spc = "idle" /\ outcome # "none"

\* C1: atomicity of save_books.  No row of a batch is visible before its
\* commit, and when persisting a record or the commit faulted, the books
\* table holds, once the call has ended, exactly the rows it held at entry.
C1_Atomicity ==
    /\ spc \in {"add", "commit", "except"} => table = before
    /\ (spc \in {"finally", "idle"} /\ fault # "none") => table = before

\* C1: the call has ended after the INSERT of its second record faulted, the
\* first already inserted, on a table that held rows.
C1_Witness ==
    /\ SaveEnded
    /\ fault = "insert"
    /\ kFault >= 1
    /\ kFault < Len(books)
    /\ before # <<>>

C3_RoundTrip ==
    (SaveEnded /\ fault = "none") =>
        /\ IsPrefix(before, table)
        /\ RowsHold(table, Len(before), books)
        /\ DistinctIds(table)

\* C3: a batch of two records was saved on a table that held rows.
C3_Witness ==
    /\ SaveEnded
    /\ fault = "none"
    /\ Len(books) = 2
    /\ before # <<>>
    /\ printed = "saved"

\* C8: the store stays ready.  Whenever no call is running, save_books can be
\* called with any batch (that the model's row bound admits), whatever the
\* earlier calls' outcomes; nothing of an ended call is left pending; and a
\* call without fault that follows faulted calls commits exactly its records
\* after the rows the table held at its entry.
C8_StaysReady ==
    /\ (spc = "idle" /\ nConstruct >= 1 /\ mpc = "none") =>
          \A bs \in Batches :
              Len(table) + Len(bs) <= MaxRows => ENABLED SaveCall(bs)
    /\ spc = "idle" => (pending = <<>> /\ txn = <<>>)
    /\ (SaveEnded /\ everFaulted /\ fault = "none") =>
          /\ outcome = "returned"
          /\ IsPrefix(before, table)
          /\ RowsHold(table, Len(before), books)

\* C8: after a call that faulted, a call with two records has committed.
C8_Witness ==
    /\ SaveEnded
    /\ everFaulted
    /\ fault = "none"
    /\ Len(books) = 2
    /\ Len(table) = Len(before) + 2

\* C9: idempotence of initialization.  Constructing DatabaseManager on a
\* target that has been constructed on before changes neither the schema
\* (the books table is neither altered nor duplicated) nor any row.
C9_InitIdempotent ==
    [][(nConstruct >= 1 /\ nConstruct' = nConstruct + 1)
          => (schema' = schema /\ schema = <<BooksTable>> /\ table' = table)]_vars

\* C9: a manager was constructed a second time on a table that holds rows.
C9_Witness ==
    /\ nConstruct >= 2
    /\ table # <<>>
    /\ schema = <<BooksTable>>

\* C10: no session leak.  While no call is running no session is open, and a
\* running call holds exactly one.
C10_NoLeakedSession ==
    /\ spc = "idle" => sessOpen = 0
    /\ spc # "idle" => sessOpen = 1

\* C10: a call has ended with the exception of a failed rollback.
C10_Witness ==
    /\ SaveEnded
    /\ rbFault
    /\ outcome = "raised"
    /\ sessOpen = 0

RECURSIVE TokensFrom(_, _, _)
TokensFrom(s, p, cur) ==
    IF p > Len(s) THEN (IF cur = <<>> THEN <<>> ELSE <<cur>>)
    ELSE IF s[p] = " "
         THEN (IF cur = <<>> THEN <<>> ELSE <<cur>>) \o TokensFrom(s, p + 1, <<>>)
         ELSE TokensFrom(s, p + 1, Append(cur, s[p]))

Tokens(s) == TokensFrom(s, 1, <<>>)

\* The currency prefix a price text starts with: the pound sign, or its
\* mis-decoded form.
CurrencyPrefixLen(text) ==
    IF IsPrefixAt(text, 1, <<ACirc, Pound>>) THEN 2
    ELSE IF IsPrefixAt(text, 1, <<Pound>>) THEN 1
    ELSE 0

\* The numeric value of a price text with its currency prefix removed.
PriceValue(text) ==
    LET d == Decimal(SubSeq(text, CurrencyPrefixLen(text) + 1, Len(text)))
    IN  [m |-> d.m, e |-> d.e]

WellFormedPrice(text) ==
    /\ CurrencyPrefixLen(text) > 0
    /\ Decimal(SubSeq(text, CurrencyPrefixLen(text) + 1, Len(text))).ok

WellFormedRating(class) ==
    /\ Len(Tokens(class)) >= 2
    /\ Tokens(class)[1] = StarRating

FetchEnded == fpc \in {"done", "raised"}

\* C4: on a loadable page of n >= 0 entries (here: entries whose fields
\* fetch_data can read) the call returns n records in document order; with
\* no entry it returns the empty list and does not fail.
C4_OneRecordPerEntry ==
    (FetchEnded /\ \A k \in 1..Len(page) : ExtractPrice(page[k].price_text).ok)
        => /\ fpc = "done"
           /\ Len(results) = Len(page)
           /\ \A k \in 1..Len(page) : results[k].title = page[k].title

\* C5: for every well-formed entry the price is extracted, and equals the
\* numeric value of the price text without its currency prefix, be the
\* prefix the pound sign or its mis-decoded form.
C5_PriceOfEitherPrefix ==
    /\ \A k \in 1..Len(results) :
          WellFormedPrice(page[k].price_text)
              => results[k].price = PriceValue(page[k].price_text)
    /\ (fpc = "raised" /\ ferr = "ValueError")
          => ~WellFormedPrice(page[idx].price_text)

\* C6: for every entry whose class attribute has the rating word as its
\* second token, the rating is that token, whatever tokens follow.
C6_RatingIsSecondToken ==
    \A k \in 1..Len(results) :
        WellFormedRating(page[k].rating_class)
            => results[k].rating = Tokens(page[k].rating_class)[2]

====
